---- MODULE Spec2Model ----
(***************************************************************************)
(* Model of fastapi_users_db_mongodb.MongoDBUserDatabase: a user store     *)
(* over one MongoDB collection.  Every public coroutine first awaits       *)
(* _initialize() (two create_index calls gated by self.initialized) and    *)
(* then issues exactly one collection call.  Coroutines of one store       *)
(* instance interleave at their await points.                              *)
(***************************************************************************)
EXTENDS Integers, Sequences, FiniteSets, TLC

VARIABLES
    docs,         \* the collection: documents in natural (insertion) order
    indexes,      \* fields that carry a unique index on the collection
    initialized,  \* self.initialized
    pc,           \* per coroutine: the await point it is suspended at
    last,         \* the most recently completed call: method, argument, outcome
    written,      \* history: per id, the value of the last successful write
    issued        \* history: fields create_index has been issued for

vars == <<docs, indexes, initialized, pc, last, written, issued>>

----------------------------------------------------------------------------
(* Bounds: the sets the inputs are drawn from *)

\* coroutines running concurrently on the one store instance
Procs == {"t1", "t2"}

----------------------------------------------------------------------------
(* Values *)

Ids == {"u1", "u2"}

\* emails are character sequences so that the collation can fold them
Emails == { <<"A", "@", "x">>, <<"a", "@", "x">>, <<"b", "@", "x">> }

OAuth(n, a) == [oauth_name |-> n, account_id |-> a]

OAuthNames == {"g", "f"}

AccountIds == {"1", "2"}

OAuthLists == { <<>>, <<OAuth("g", "2")>>, <<OAuth("g", "1"), OAuth("f", "2")>> }

Users == [id : Ids, email : Emails, oauth_accounts : OAuthLists]

\* Python None
None == [none |-> TRUE]

----------------------------------------------------------------------------
(* Conversions *)

\* the ObjectId the driver generates for _id: unique among the documents of
\* the collection (nothing the adapter does reads it)
NewOid(coll) ==
    CHOOSE n \in 1..(Len(coll) + 1) :
        /\ \A i \in 1..Len(coll) : coll[i]._id # n
        /\ \A m \in 1..(n - 1) : \E i \in 1..Len(coll) : coll[i]._id = m

\* user.dict() as stored by insert_one, which adds the driver-generated _id
ToDoc(user, oid) ==
    [_id |-> oid, id |-> user.id, email |-> user.email,
     oauth_accounts |-> user.oauth_accounts]

\* self.user_db_model(**user) if user else None: the model keeps its own
\* fields and ignores _id
ToUser(doc) ==
    IF doc = None THEN None
    ELSE [id |-> doc.id, email |-> doc.email,
          oauth_accounts |-> doc.oauth_accounts]

\* Collation("en", strength=2): letters compare by base letter, case ignored
Fold(c) ==
    CASE c = "A" -> "a"
      [] c = "B" -> "b"
      [] c = "X" -> "x"
      [] OTHER -> c

CollationKey(s) == [i \in 1..Len(s) |-> Fold(s[i])]

CollationEq(s, t) == CollationKey(s) = CollationKey(t)

----------------------------------------------------------------------------
(* The collection calls the adapter makes *)

Min(S) == CHOOSE x \in S : \A y \in S : x <= y

\* find_one: of the matching positions hit, the first document in natural
\* order, or None
FindOne(coll, hit) ==
    IF hit = {} THEN None ELSE coll[Min(hit)]

\* positions matching the filter {"id": id}
PositionsById(coll, id) == {i \in 1..Len(coll) : coll[i].id = id}

\* collection.find_one({"id": id})
FindOneById(coll, id) == FindOne(coll, PositionsById(coll, id))

\* collection.find_one({"email": email}, collation=self.email_collation)
FindOneByEmail(coll, email) ==
    FindOne(coll, {i \in 1..Len(coll) : CollationEq(coll[i].email, email)})

\* collection.find_one({"oauth_accounts.oauth_name": oauth,
\*                      "oauth_accounts.account_id": account_id}):
\* each dotted path matches when SOME array element has the value
FindOneByOAuth(coll, oauth, account_id) ==
    FindOne(coll,
            {k \in 1..Len(coll) :
                /\ \E i \in 1..Len(coll[k].oauth_accounts) :
                       coll[k].oauth_accounts[i].oauth_name = oauth
                /\ \E j \in 1..Len(coll[k].oauth_accounts) :
                       coll[k].oauth_accounts[j].account_id = account_id})

\* value of an indexed field of a document
Field(d, f) == IF f = "id" THEN d.id ELSE d.email

\* a unique index on f rejects doc when another document (any position but
\* skip) has the same value of f under plain equality
Collides(coll, idx, doc, skip) ==
    \E f \in idx : \E i \in 1..Len(coll) :
        i # skip /\ Field(coll[i], f) = Field(doc, f)

\* collection.insert_one(doc)
InsertOne(coll, idx, doc) ==
    IF Collides(coll, idx, doc, 0)
    THEN [docs |-> coll, err |-> "DuplicateKeyError"]
    ELSE [docs |-> Append(coll, doc), err |-> "ok"]

\* replace_one written as an update that sets the email alone: the stored
\* oauth_accounts survive the update
ReplaceOneMerge(coll, idx, id, repl) ==
    LET hit == PositionsById(coll, id)
    IN IF hit = {} THEN [docs |-> coll, err |-> "ok"]
       ELSE LET i == Min(hit)
                new == [coll[i] EXCEPT !.email = repl.email]
            IN IF Collides(coll, idx, new, i)
               THEN [docs |-> coll, err |-> "DuplicateKeyError"]
               ELSE [docs |-> [coll EXCEPT ![i] = new], err |-> "ok"]

\* replace_one called with upsert=True: no match inserts the replacement
ReplaceOneUpsert(coll, idx, id, repl) ==
    LET hit == PositionsById(coll, id)
    IN IF hit = {} THEN InsertOne(coll, idx, repl)
       ELSE LET i == Min(hit)
                new == [repl EXCEPT !._id = coll[i]._id]
            IN IF Collides(coll, idx, new, i)
               THEN [docs |-> coll, err |-> "DuplicateKeyError"]
               ELSE [docs |-> [coll EXCEPT ![i] = new], err |-> "ok"]

\* collection.replace_one({"id": id}, repl): the first match is replaced
\* wholly and keeps its _id; no match changes nothing (upsert is off)
ReplaceOne(coll, idx, id, repl) ==
    LET hit == PositionsById(coll, id)
    IN IF hit = {} THEN [docs |-> coll, err |-> "ok"]
       ELSE LET i == Min(hit)
                new == [repl EXCEPT !._id = coll[i]._id]
            IN IF Collides(coll, idx, new, i)
               THEN [docs |-> coll, err |-> "DuplicateKeyError"]
               ELSE [docs |-> [coll EXCEPT ![i] = new], err |-> "ok"]

\* collection.delete_one({"id": id}): the first match is removed
DeleteOne(coll, id) ==
    LET hit == PositionsById(coll, id)
    IN IF hit = {} THEN coll
       ELSE LET i == Min(hit)
            IN [k \in 1..(Len(coll) - 1) |->
                   IF k < i THEN coll[k] ELSE coll[k + 1]]

\* a unique index cannot be built over documents that already collide
HasDuplicates(coll, f) ==
    \E i, j \in 1..Len(coll) : i # j /\ Field(coll[i], f) = Field(coll[j], f)

\* collection.create_index(f, unique=True); ok = FALSE is a driver failure
CreateIndex(coll, idx, f, ok) ==
    IF ok /\ ~HasDuplicates(coll, f)
    THEN [indexes |-> idx \cup {f}, err |-> "ok"]
    ELSE [indexes |-> idx, err |-> "OperationFailure"]

----------------------------------------------------------------------------
(* State after __init__ over an empty collection *)

Init ==
    /\ docs = <<>>
    /\ indexes = {}
    /\ initialized = FALSE
    /\ pc = [p \in Procs |-> "idle"]
    /\ last = [op |-> "none", arg |-> None, res |-> None, err |-> "ok"]
    /\ written = [i \in Ids |-> None]
    /\ issued = {}

\* _initialize setting the flag before its create_index calls have run
BeginFlagFirst(p) ==
    /\ pc[p] = "idle"
    /\ IF initialized
       THEN /\ pc' = [pc EXCEPT ![p] = "call"]
            /\ UNCHANGED <<issued, initialized>>
       ELSE /\ pc' = [pc EXCEPT ![p] = "idx_id"]
            /\ issued' = issued \cup {"id"}
            /\ initialized' = TRUE
    /\ UNCHANGED <<docs, indexes, last, written>>

\* _initialize without the test of the flag
BeginUngated(p) ==
    /\ pc[p] = "idle"
    /\ pc' = [pc EXCEPT ![p] = "idx_id"]
    /\ issued' = issued \cup {"id"}
    /\ UNCHANGED <<docs, indexes, initialized, last, written>>

\* A public method is called: it awaits _initialize(), which tests the flag.
\* With the flag unset, create_index("id") is issued; with it set,
\* _initialize returns and the method issues its collection call.  Which
\* method it is, and its argument, are drawn where they are first used: at
\* the collection call.
Begin(p) ==
    /\ pc[p] = "idle"
    /\ IF initialized
       THEN /\ pc' = [pc EXCEPT ![p] = "call"]
            /\ UNCHANGED issued
       ELSE /\ pc' = [pc EXCEPT ![p] = "idx_id"]
            /\ issued' = issued \cup {"id"}
    /\ UNCHANGED <<docs, indexes, initialized, last, written>>

\* a create_index call raised: the exception leaves the public method
Raise(p, e) ==
    /\ pc' = [pc EXCEPT ![p] = "idle"]
    /\ last' = [op |-> "_initialize", arg |-> None, res |-> None, err |-> e]
    /\ UNCHANGED <<initialized, issued>>

\* _initialize setting the flag between its two create_index calls
IndexIdSetsFlag(p) ==
    /\ pc[p] = "idx_id"
    /\ \E ok \in BOOLEAN :
         LET r == CreateIndex(docs, indexes, "id", ok) IN
         /\ indexes' = r.indexes
         /\ IF r.err = "ok"
            THEN /\ pc' = [pc EXCEPT ![p] = "idx_email"]
                 /\ issued' = issued \cup {"email"}
                 /\ initialized' = TRUE
                 /\ UNCHANGED last
            ELSE Raise(p, r.err)
    /\ UNCHANGED <<docs, written>>

\* await create_index("id", unique=True) completes; on success
\* create_index("email", unique=True) is issued
IndexId(p) ==
    /\ pc[p] = "idx_id"
    /\ \E ok \in BOOLEAN :
         LET r == CreateIndex(docs, indexes, "id", ok) IN
         /\ indexes' = r.indexes
         /\ IF r.err = "ok"
            THEN /\ pc' = [pc EXCEPT ![p] = "idx_email"]
                 /\ issued' = issued \cup {"email"}
                 /\ UNCHANGED <<initialized, last>>
            ELSE Raise(p, r.err)
    /\ UNCHANGED <<docs, written>>

\* create_index("email") called without unique=True: no constraint results
IndexEmailNotUnique(p) ==
    /\ pc[p] = "idx_email"
    /\ \E ok \in BOOLEAN :
         /\ UNCHANGED indexes
         /\ IF ok
            THEN /\ pc' = [pc EXCEPT ![p] = "call"]
                 /\ initialized' = TRUE
                 /\ UNCHANGED <<last, issued>>
            ELSE Raise(p, "OperationFailure")
    /\ UNCHANGED <<docs, written>>

\* await create_index("email", unique=True) completes; on success
\* self.initialized = True and the method issues its collection call
IndexEmail(p) ==
    /\ pc[p] = "idx_email"
    /\ \E ok \in BOOLEAN :
         LET r == CreateIndex(docs, indexes, "email", ok) IN
         /\ indexes' = r.indexes
         /\ IF r.err = "ok"
            THEN /\ pc' = [pc EXCEPT ![p] = "call"]
                 /\ initialized' = TRUE
                 /\ UNCHANGED <<last, issued>>
            ELSE Raise(p, r.err)
    /\ UNCHANGED <<docs, written>>

\* the collection call of method m completes and the method returns
Return(p, m, arg, res, err) ==
    /\ pc[p] = "call"
    /\ pc' = [pc EXCEPT ![p] = "idle"]
    /\ last' = [op |-> m, arg |-> arg, res |-> res, err |-> err]
    /\ UNCHANGED <<indexes, initialized, issued>>

Get(p) ==
    \E id \in Ids :
        /\ Return(p, "get", id, ToUser(FindOneById(docs, id)), "ok")
        /\ UNCHANGED <<docs, written>>

GetByEmail(p) ==
    \E email \in Emails :
        /\ Return(p, "get_by_email", email,
                  ToUser(FindOneByEmail(docs, email)), "ok")
        /\ UNCHANGED <<docs, written>>

GetByOAuthAccount(p) ==
    \E oauth \in OAuthNames, account_id \in AccountIds :
        /\ Return(p, "get_by_oauth_account", <<oauth, account_id>>,
                  ToUser(FindOneByOAuth(docs, oauth, account_id)), "ok")
        /\ UNCHANGED <<docs, written>>

\* create returns user; a DuplicateKeyError propagates instead
Create(p) ==
    \E user \in Users :
        LET r == InsertOne(docs, indexes, ToDoc(user, NewOid(docs))) IN
        /\ Return(p, "create", user,
                  IF r.err = "ok" THEN user ELSE None, r.err)
        /\ docs' = r.docs
        /\ written' = IF r.err = "ok"
                      THEN [written EXCEPT ![user.id] = user] ELSE written

\* update returns user; a DuplicateKeyError propagates instead
Update(p) ==
    \E user \in Users :
        LET r == ReplaceOne(docs, indexes, user.id, ToDoc(user, NewOid(docs))) IN
        /\ Return(p, "update", user,
                  IF r.err = "ok" THEN user ELSE None, r.err)
        /\ docs' = r.docs
        /\ written' = IF r.err = "ok" /\ \E i \in 1..Len(docs) : docs[i].id = user.id
                      THEN [written EXCEPT ![user.id] = user] ELSE written

\* delete reads user.id alone, so that is what is drawn; it returns None
Delete(p) ==
    \E id \in Ids :
        /\ Return(p, "delete", id, None, "ok")
        /\ docs' = DeleteOne(docs, id)
        /\ written' = [written EXCEPT ![id] = None]

Next ==
    \E p \in Procs :
        \/ Begin(p)
        \/ IndexId(p)
        \/ IndexEmail(p)
        \/ Get(p)
        \/ GetByEmail(p)
        \/ GetByOAuthAccount(p)
        \/ Create(p)
        \/ Update(p)
        \/ Delete(p)

Spec == Init /\ [][Next]_vars

----------------------------------------------------------------------------
(* Steps and states the properties speak about *)

\* coroutine p's collection call completes in this step
CallStep(p) == pc[p] = "call" /\ pc'[p] = "idle"

\* a create_index call of coroutine p raises in this step
FailStep(p) == pc[p] \in {"idx_id", "idx_email"} /\ pc'[p] = "idle"

\* create_index(f) is issued in this step
IssuedInStep(f) ==
    \E p \in Procs :
        \/ f = "id" /\ pc[p] = "idle" /\ pc'[p] = "idx_id"
        \/ f = "email" /\ pc[p] = "idx_id" /\ pc'[p] = "idx_email"

BothConstraints == {"id", "email"} \subseteq indexes

\* document d holds the pair (oauth, account_id) in one oauth_accounts entry
HoldsPair(d, oauth, account_id) ==
    \E i \in 1..Len(d.oauth_accounts) :
        d.oauth_accounts[i] = OAuth(oauth, account_id)

----------------------------------------------------------------------------
(* Properties *)

\* C1: each (oauth_name, account_id) pair under oauth_accounts appears in at
\* most one stored document.
C1_OAuthPairUnique ==
    \A i, j \in 1..Len(docs) :
        i # j => \A a \in 1..Len(docs[i].oauth_accounts) :
                     ~HoldsPair(docs[j], docs[i].oauth_accounts[a].oauth_name,
                                docs[i].oauth_accounts[a].account_id)

\* C2: get_by_oauth_account(p, a) returns a user only if one entry of its
\* oauth_accounts has provider p and account id a, and returns None when no
\* stored document holds that exact pair.
C2_ExactPairOnly ==
    last.op = "get_by_oauth_account" =>
        /\ last.res # None =>
               HoldsPair(last.res, last.arg[1], last.arg[2])
        /\ (\A i \in 1..Len(docs) : ~HoldsPair(docs[i], last.arg[1], last.arg[2]))
               => last.res = None

\* C3: no two stored documents have emails that are equal under the
\* collation get_by_email compares with.
C3_OnePerNormalizedEmail ==
    \A i, j \in 1..Len(docs) :
        i # j => ~CollationEq(docs[i].email, docs[j].email)

\* C4: under every interleaving, including calls racing through
\* _initialize, no two stored documents have the same id.
C4_UniqueId ==
    \A i, j \in 1..Len(docs) : i # j => docs[i].id # docs[j].id

\* a create was rejected for its id while another coroutine is still inside
\* _initialize
C4_Witness ==
    /\ \E p \in Procs : pc[p] \in {"idx_id", "idx_email"}
    /\ last.op = "create"
    /\ last.err = "DuplicateKeyError"
    /\ \E i \in 1..Len(docs) :
           docs[i].id = last.arg.id /\ docs[i].email # last.arg.email

\* C5: a create whose id or exact email is already stored raises
\* DuplicateKeyError and leaves the stored documents as they were.
C5_CreateRejected ==
    [][\A p \in Procs :
           (/\ CallStep(p)
            /\ last'.op = "create"
            /\ \E i \in 1..Len(docs) :
                   \/ docs[i].id = last'.arg.id
                   \/ docs[i].email = last'.arg.email)
           => (last'.err = "DuplicateKeyError" /\ docs' = docs)]_vars

\* a create was rejected for its email alone
C5_Witness ==
    /\ last.op = "create"
    /\ last.err = "DuplicateKeyError"
    /\ \E i \in 1..Len(docs) : docs[i].email = last.arg.email
    /\ \A i \in 1..Len(docs) : docs[i].id # last.arg.id

\* C6: right after a successful create(u), get_by_email(e) returns u for
\* every e equal to u.email under the collation.
C6_CreateThenGetByEmail ==
    (last.op = "create" /\ last.err = "ok") =>
        \A e \in Emails :
            CollationEq(e, last.arg.email) =>
                ToUser(FindOneByEmail(docs, e)) = last.arg

\* C7: get(id) returns the whole value of the most recent successful
\* create or matching update of that id, and None when there was none or a
\* delete followed it.
C7_GetLastWrite ==
    /\ \A id \in Ids : ToUser(FindOneById(docs, id)) = written[id]
    /\ last.op = "get" => last.res = written[last.arg]

\* a get returned a stored user without oauth accounts while two users are
\* stored
C7_Witness ==
    /\ last.op = "get"
    /\ last.res # None
    /\ last.res.oauth_accounts = <<>>
    /\ Len(docs) = 2

\* C8: update and delete of an id that is not stored return normally and
\* leave the stored documents as they were.
C8_MissingIdNoop ==
    [][\A p \in Procs :
           /\ (/\ CallStep(p)
               /\ last'.op = "update"
               /\ \A i \in 1..Len(docs) : docs[i].id # last'.arg.id)
              => (last'.err = "ok" /\ docs' = docs)
           /\ (/\ CallStep(p)
               /\ last'.op = "delete"
               /\ \A i \in 1..Len(docs) : docs[i].id # last'.arg)
              => (last'.err = "ok" /\ docs' = docs)]_vars

\* an update of an id that is not stored returned, another id being stored
C8_Witness ==
    /\ last.op = "update"
    /\ last.err = "ok"
    /\ Len(docs) = 1
    /\ docs[1].id # last.arg.id

\* C9 as stated: each create_index call is issued once in the lifetime of
\* the store, so none is issued for a field it was issued for before.
C9_IssuedOnce ==
    [][\A f \in issued : ~IssuedInStep(f)]_vars

\* C9 as amended: the calls are gated by the flag.  A method entered with
\* the flag unset issues create_index; the flag is set when both calls of
\* one coroutine have succeeded; a method entered with the flag set issues
\* none.
C9_GatedByFlag ==
    /\ [](initialized => issued = {"id", "email"})
    /\ [][\A p \in Procs :
              (pc[p] = "idle" /\ pc'[p] # "idle") =>
                  IF initialized
                  THEN pc'[p] = "call" /\ issued' = issued
                  ELSE pc'[p] = "idx_id" /\ "id" \in issued']_vars
    /\ [][\A p \in Procs :
              (pc[p] = "idx_email" /\ pc'[p] = "call") => initialized']_vars

\* a method entered after a call had completed under the set flag
C9_Witness ==
    /\ initialized
    /\ last.op \in {"get", "create"}
    /\ \A p \in Procs : pc[p] = "call"

\* C10 as stated: no collection call is issued or completes before both
\* unique indexes exist; the set flag implies both exist; a create_index call
\* that raises leaves the flag false, so the method entered next runs the
\* initialization again.
C10_AsStated ==
    /\ []((initialized \/ \E p \in Procs : pc[p] = "call") => BothConstraints)
    /\ [][\A p \in Procs : CallStep(p) => BothConstraints]_vars
    /\ [][\A p \in Procs : FailStep(p) => ~initialized']_vars
    /\ [][\A p \in Procs :
              (pc[p] = "idle" /\ last.op = "_initialize" /\ pc'[p] # "idle")
                  => pc'[p] = "idx_id"]_vars

\* C10 as amended: no collection call is issued or completes before both
\* unique indexes exist; the set flag implies both exist; a create_index call
\* that raises does not write the flag, which stays false unless another
\* coroutine's initialization has succeeded, and then both indexes exist; a
\* method entered with the flag unset runs the initialization again.
C10_ConstraintsFirst ==
    /\ []((initialized \/ \E p \in Procs : pc[p] = "call") => BothConstraints)
    /\ [][\A p \in Procs : CallStep(p) => BothConstraints]_vars
    /\ [][\A p \in Procs :
              FailStep(p) => /\ initialized' = initialized
                             /\ initialized' => BothConstraints']_vars
    /\ [][\A p \in Procs :
              (pc[p] = "idle" /\ ~initialized /\ pc'[p] # "idle")
                  => pc'[p] = "idx_id"]_vars

\* after a create_index call raised with the flag unset, a coroutine is
\* inside _initialize again
C10_Witness ==
    /\ last.op = "_initialize"
    /\ ~initialized
    /\ "id" \in indexes
    /\ \E p \in Procs : pc[p] = "idx_email"

====
